---------------------------- MODULE Spec2Model ----------------------------
(***************************************************************************)
(* Four-phase playlist cover changer (src/cover-change-test/cover-change.py) *)
(* as a state machine: override parsing at import, startup reconciliation,  *)
(* the APScheduler job table with date-triggered jobs and misfire grace,    *)
(* the daily recalculation job and the persisted phase.                     *)
(* Further down: the polling loop of src/like-sync/like-sync.py (LikeSpec)  *)
(* and select_item of src/playlist-changer/playlist_changer.py (SelectSpec). *)
(*                                                                         *)
(* Instants are seconds since 00:00 local time of day 0, in one fixed local *)
(* zone (naive and aware datetimes of that zone denote the same instant).   *)
(***************************************************************************)
EXTENDS Integers, Sequences, FiniteSets, TLC

VARIABLES
    pc,           \* main thread: "boot" | "aborted" | "main" | "reconciled" | "running"
                  \* ("resolve" in ResolveSpec)
    now,          \* wall clock
    debug_arg,    \* args.debug: None or the characters of the --debug value
    DEBUG_MODE,   \* module global
    DEBUG_TIMES,  \* module global: None or phase -> instant (possibly partial)
    jobs,         \* scheduler job table: set of [id, run_date]
    submitted,    \* jobs handed to the executor and not yet picked up by a pool thread
    running,      \* change_cover calls of pool threads between load_state and the return
    config,       \* what the checks of lines 150-168 find
    executed,     \* ids of the jobs run since the job table was last populated
    state_file,   \* cover_state.json: "missing" | "unreadable" | "malformed" | "no_phase"
                  \* | a phase (the 'phase' of a well-formed record)
    applied,      \* phase of the last successful change_playlist_cover, or None
    phase_times,  \* the schedule last handed to get_current_phase / schedule_phase_changes
    ev,           \* what the last step did (the log lines of that step)
    recon,        \* the last two reconciliations made at the present clock reading
    last_done,    \* job id -> run_date of the last job of that id handed to the executor
    late_wakeups, \* times the scheduler thread woke up after the run_date it slept for
    restarts,     \* process restarts so far
    \* ---- like-sync.py ----
    lpc,               \* main: "off" | "start" | "poll" | "add_month" | "add_year"
                       \* | "add_global" | "save" | "sleep" | "crashed"
    liked,             \* the user's saved tracks, newest first
    last_processed_id, \* local of main: None or a track id
    liked_songs_state, \* STATE_FILE: "missing" | "malformed" | the saved last_liked_id
    playlist_items,    \* playlist -> the tracks added to it, in the order of the calls
    new_tracks,        \* what is left of reversed(new_tracks), the head being processed
    api_errors,        \* exceptions raised so far by API calls and state writes
    like_restarts,     \* restarts of like-sync so far
    \* ---- playlist_changer.py ----
    selection_mode,    \* "random" | "sequential" | "off"
    available_items,   \* the list handed to select_item
    used_items,        \* state['used_...']
    item_index,        \* state[state_key]
    selection          \* what the last call of select_item did

cover_vars == <<pc, now, debug_arg, DEBUG_MODE, DEBUG_TIMES, jobs, submitted, running, config,
          executed, state_file, applied, phase_times, ev, recon, last_done, late_wakeups, restarts>>
like_vars == <<lpc, liked, last_processed_id, liked_songs_state, playlist_items, new_tracks,
               api_errors, like_restarts>>
select_vars == <<selection_mode, available_items, used_items, item_index, selection>>
vars == <<cover_vars, like_vars, select_vars>>

None == "None"

(* ------------------------------ bounds -------------------------------- *)
\* last calendar day the clock may reach (day 0 is the day of the first start)
MaxDay == 2
\* process restarts explored
MaxRestarts == 1
\* late wake-ups of the scheduler thread explored per process
MaxLateWakeups == 1
\* calendar month of day 0 (the horizon stays inside it)
EpochMonth == 6
\* largest instant of the resolver's input space (ResolveSpec)
MaxT == 3
\* largest MORNING_DURATION / EVENING_DURATION of the calculator's input space,
\* in hours (CalcSpec)
MaxDuration == 4
\* tracks the user likes while like-sync is observed (LikeSpec)
MaxTracks == 3
\* the 'limit' of get_recent_liked_songs, scaled down from 50 (LikeSpec)
RecentLimit == 2
\* exceptions raised by API calls and state writes of like-sync (LikeSpec)
MaxApiErrors == 2
\* restarts of like-sync (LikeSpec)
MaxLikeRestarts == 1
\* distinct items and longest available list handed to select_item (SelectSpec)
MaxItems == 3

(* --------------------------- configuration ---------------------------- *)
MORNING_DURATION == 3
EVENING_DURATION == 2
TIME_OFFSET == 1
misfire_grace_time == 3600

Hour == 60 * 60
Day == 24 * Hour

phases == <<"morning", "day", "evening", "night">>
Phases == {phases[i] : i \in 1..4}

(* ----------------------------- datetime ------------------------------- *)
\* datetime.date() / datetime.time() / datetime.combine / timedelta(hours=h)
DateOf(t) == t \div Day
TimeOf(t) == t % Day
Combine(date, tod) == date * Day + tod
Hours(h) == h * Hour
HM(h, m) == h * Hour + m * 60

(* ------------------------- override parsing --------------------------- *)
\* A string is the sequence of its characters.
Digits == <<"0", "1", "2", "3", "4", "5", "6", "7", "8", "9">>
IsDigit(c) == \E i \in 1..10 : Digits[i] = c
DigitVal(c) == (CHOOSE i \in 1..10 : Digits[i] = c) - 1

\* str.split(sep)
RECURSIVE SplitOn(_, _)
SplitOn(s, sep) ==
    IF \A i \in 1..Len(s) : s[i] # sep
    THEN <<s>>
    ELSE LET i == CHOOSE k \in 1..Len(s) : s[k] = sep /\ \A l \in 1..(k - 1) : s[l] # sep
         IN  <<SubSeq(s, 1, i - 1)>> \o SplitOn(SubSeq(s, i + 1, Len(s)), sep)

\* str.strip()
RECURSIVE Strip(_)
Strip(s) ==
    IF s = <<>> THEN s
    ELSE IF Head(s) = " " THEN Strip(Tail(s))
    ELSE IF s[Len(s)] = " " THEN Strip(SubSeq(s, 1, Len(s) - 1))
    ELSE s

\* int(str): optional surrounding blanks, optional sign, at least one digit
Unsigned(s) == IF s # <<>> /\ Head(s) \in {"+", "-"} THEN Tail(s) ELSE s
IntOk(s) ==
    LET u == Unsigned(Strip(s))
    IN  u # <<>> /\ \A i \in 1..Len(u) : IsDigit(u[i])
RECURSIVE DigitsVal(_)
DigitsVal(u) ==
    IF u = <<>> THEN 0 ELSE 10 * DigitsVal(SubSeq(u, 1, Len(u) - 1)) + DigitVal(u[Len(u)])
IntVal(s) ==
    LET t == Strip(s)
    IN  IF t # <<>> /\ Head(t) = "-" THEN 0 - DigitsVal(Unsigned(t)) ELSE DigitsVal(Unsigned(t))

\* lines 101-104: hours, minutes = map(int, time_str.split(':')); datetime.time(hours, minutes)
\* raises unless there are exactly two integers with 0 <= hours <= 23 and 0 <= minutes <= 59
TokenOk(tok) ==
    LET parts == SplitOn(Strip(tok), ":")
    IN  /\ Len(parts) = 2
        /\ IntOk(parts[1]) /\ IntOk(parts[2])
        /\ IntVal(parts[1]) \in 0..23
        /\ IntVal(parts[2]) \in 0..59
TokenTime(tok) ==
    LET parts == SplitOn(Strip(tok), ":")
    IN  HM(IntVal(parts[1]), IntVal(parts[2]))

\* lines 103-109: today at that clock time, or tomorrow if that is already past
DebugTime(tod, t) ==
    IF Combine(DateOf(t), tod) < t
    THEN Combine(DateOf(t) + 1, tod)
    ELSE Combine(DateOf(t), tod)

\* DEBUG_TIMES is None or a dict from phase to instant
NoTimes == [none |-> TRUE, at |-> <<>>]
Times(f) == [none |-> FALSE, at |-> f]

\* args.debug is None or a string
NoArg == [given |-> FALSE, text |-> <<>>]
Text(chars) == [given |-> TRUE, text |-> chars]

\* lines 88-121 with an except clause that leaves DEBUG_MODE as line 88 set it
ParseDebug_noreset(arg, t) ==
    IF ~arg.given THEN [mode |-> FALSE, times |-> NoTimes]
    ELSE LET time_strings == SplitOn(arg.text, ",")
         IN  IF Len(time_strings) # 4 THEN [mode |-> TRUE, times |-> NoTimes]
             ELSE LET bad == {i \in 1..4 : ~TokenOk(time_strings[i])}
                      k   == IF bad = {} THEN 5
                             ELSE CHOOSE i \in bad : \A j \in bad : i <= j
                  IN  [mode  |-> TRUE,
                       times |-> Times([ph \in {phases[i] : i \in 1..(k - 1)} |->
                                    LET i == CHOOSE j \in 1..4 : phases[j] = ph
                                    IN  DebugTime(TokenTime(time_strings[i]), t)])]

\* lines 88-121: the result is [mode |-> DEBUG_MODE, times |-> DEBUG_TIMES]
ParseDebug(arg, t) ==
    IF ~arg.given THEN [mode |-> FALSE, times |-> NoTimes]
    ELSE LET time_strings == SplitOn(arg.text, ",")
         IN  IF Len(time_strings) # 4 THEN [mode |-> FALSE, times |-> NoTimes]
             ELSE LET bad == {i \in 1..4 : ~TokenOk(time_strings[i])}
                      k   == IF bad = {} THEN 5
                             ELSE CHOOSE i \in bad : \A j \in bad : i <= j
                  IN  [mode  |-> (k = 5),
                       times |-> Times([ph \in {phases[i] : i \in 1..(k - 1)} |->
                                    LET i == CHOOSE j \in 1..4 : phases[j] = ph
                                    IN  DebugTime(TokenTime(time_strings[i]), t)])]

\* "if DEBUG_MODE and DEBUG_TIMES": None and the empty dict are both false
Truthy(times) == ~times.none /\ DOMAIN times.at # {}

(* --------------------------- time calculations ------------------------ *)
\* lines 265-279: fallback table, month -> (sunrise, sunset) clock times
sun_times ==
    << <<HM(8, 0),  HM(16, 0)>>,  <<HM(7, 30), HM(17, 0)>>,  <<HM(6, 30), HM(18, 0)>>,
       <<HM(6, 0),  HM(19, 30)>>, <<HM(5, 0),  HM(20, 30)>>, <<HM(4, 30), HM(21, 0)>>,
       <<HM(5, 0),  HM(21, 0)>>,  <<HM(5, 30), HM(20, 0)>>,  <<HM(6, 30), HM(19, 0)>>,
       <<HM(7, 0),  HM(17, 30)>>, <<HM(7, 30), HM(16, 0)>>,  <<HM(8, 0),  HM(15, 45)>> >>

\* datetime.now().month: the horizon of the model stays inside one month
MonthOf(date) == EpochMonth

\* What the sunrise-sunset service answers: an error (network failure, status
\* not OK, unparsable body) or today's sunrise and sunset as local clock times.
ApiResponses ==
    { [ok |-> FALSE, sunrise |-> 0, sunset |-> 0],
      [ok |-> TRUE, sunrise |-> HM(4, 43), sunset |-> HM(21, 21)] }

\* get_sun_times whose fallback leaves out the offset of lines 297-300
get_sun_times_nooffset(today, resp) ==
    IF resp.ok
    THEN [sunrise |-> Combine(today, resp.sunrise) + Hours(TIME_OFFSET),
          sunset  |-> Combine(today, resp.sunset) + Hours(TIME_OFFSET)]
    ELSE [sunrise |-> Combine(today, sun_times[MonthOf(today)][1]),
          sunset  |-> Combine(today, sun_times[MonthOf(today)][2])]

\* lines 225-306
get_sun_times(today, resp) ==
    IF resp.ok
    THEN [sunrise |-> Combine(today, resp.sunrise) + Hours(TIME_OFFSET),
          sunset  |-> Combine(today, resp.sunset) + Hours(TIME_OFFSET)]
    ELSE [sunrise |-> Combine(today, sun_times[MonthOf(today)][1]) + Hours(TIME_OFFSET),
          sunset  |-> Combine(today, sun_times[MonthOf(today)][2]) + Hours(TIME_OFFSET)]

\* lines 336-346 with an evening that is kept from starting before the day
SolarPhases_clamped(sunrise, sunset, morning_duration, evening_duration) ==
    [ph \in Phases |->
        CASE ph = "morning" -> sunrise
          [] ph = "day"     -> sunrise + Hours(morning_duration)
          [] ph = "evening" -> IF sunset - Hours(evening_duration) < sunrise + Hours(morning_duration)
                               THEN sunrise + Hours(morning_duration)
                               ELSE sunset - Hours(evening_duration)
          [] ph = "night"   -> sunset]

\* lines 336-346
SolarPhases(sunrise, sunset, morning_duration, evening_duration) ==
    [ph \in Phases |->
        CASE ph = "morning" -> sunrise
          [] ph = "day"     -> sunrise + Hours(morning_duration)
          [] ph = "evening" -> sunset - Hours(evening_duration)
          [] ph = "night"   -> sunset]

\* lines 308-346 (the branch of line 318 needs "not DEBUG_MODE" and is never
\* taken), with the two durations of lines 75 and 77 as read from the environment
PhaseTimesFor(mode, times, t, resp, morning_duration, evening_duration) ==
    IF mode /\ Truthy(times)
    THEN [ph \in Phases |-> times.at[ph]]
    ELSE LET sun == get_sun_times(DateOf(t), resp)
         IN  SolarPhases(sun.sunrise, sun.sunset, morning_duration, evening_duration)

\* lines 308-346 under the default durations
calculate_phase_times(mode, times, t, resp) ==
    PhaseTimesFor(mode, times, t, resp, MORNING_DURATION, EVENING_DURATION)

\* get_current_phase with every comparison "<=": a boundary instant resolves to
\* the phase that ends at it
get_current_phase_le(t, pt) ==
    IF t <= pt["morning"] THEN "night"
    ELSE IF t <= pt["day"] THEN "morning"
    ELSE IF t <= pt["evening"] THEN "day"
    ELSE IF t <= pt["night"] THEN "evening"
    ELSE "night"

\* get_current_phase with the results of two branches exchanged
get_current_phase_swapped(t, pt) ==
    IF t < pt["morning"] THEN "night"
    ELSE IF t < pt["day"] THEN "day"
    ELSE IF t < pt["evening"] THEN "morning"
    ELSE IF t < pt["night"] THEN "evening"
    ELSE "night"

\* lines 359-368, with now and phase_times as read in lines 355-356
get_current_phase(t, pt) ==
    IF t < pt["morning"] THEN "night"
    ELSE IF t < pt["day"] THEN "morning"
    ELSE IF t < pt["evening"] THEN "day"
    ELSE IF t < pt["night"] THEN "evening"
    ELSE "night"

(* --------------------------- state management ------------------------- *)
\* load_state handing back whatever it finds in a file that exists
load_state_raw(file) == IF file = "missing" THEN None ELSE file

\* lines 625-638: a missing file or anything that fails to load gives None
load_state(file) == IF file \in Phases THEN file ELSE None

\* How a write of the state file ends: written; open() fails and the file is
\* untouched; open(..., 'w') truncates it and the dump fails.
WriteOutcomes == {"ok", "open_fails", "dump_fails"}

\* lines 602-623: no exception leaves save_state
save_state(phase, file, wr) ==
    CASE wr = "ok"         -> phase
      [] wr = "open_fails" -> file
      [] wr = "dump_fails" -> "malformed"

\* lines 664-671 undoing the cover change when the state write fails
change_cover_apply_rollback(phase, file, app, success, wr) ==
    IF success
    THEN [file |-> save_state(phase, file, wr),
          applied |-> IF wr = "ok" THEN phase ELSE app,
          invoked |-> 1, saved |-> TRUE]
    ELSE [file |-> file, applied |-> app, invoked |-> 1, saved |-> FALSE]

\* lines 664-671: change_cover from the call of change_playlist_cover on.
\* success is what change_playlist_cover returns (lines 567-599: every
\* exception becomes False).
change_cover_apply(phase, file, app, success, wr) ==
    IF success
    THEN [file |-> save_state(phase, file, wr), applied |-> phase,
          invoked |-> 1, saved |-> TRUE]
    ELSE [file |-> file, applied |-> app, invoked |-> 1, saved |-> FALSE]

\* change_cover that never calls save_state
change_cover_nosave(phase, file, app, success, wr) ==
    IF load_state(file) = phase
    THEN [file |-> file, applied |-> app, invoked |-> 0, saved |-> FALSE]
    ELSE [file |-> file, applied |-> IF success THEN phase ELSE app,
          invoked |-> 1, saved |-> FALSE]

\* change_cover without the "already using this cover" check
change_cover_always(phase, file, app, success, wr) ==
    IF success
    THEN [file |-> save_state(phase, file, wr), applied |-> phase,
          invoked |-> 1, saved |-> TRUE]
    ELSE [file |-> file, applied |-> app, invoked |-> 1, saved |-> FALSE]

\* change_cover that saves the state whatever change_playlist_cover returned
change_cover_eager(phase, file, app, success, wr) ==
    IF load_state(file) = phase
    THEN [file |-> file, applied |-> app, invoked |-> 0, saved |-> FALSE]
    ELSE [file |-> save_state(phase, file, wr),
          applied |-> IF success THEN phase ELSE app, invoked |-> 1, saved |-> TRUE]

\* lines 654-671 in one thread. The result is the state file, the cover
\* applied, and what the call did.
change_cover(phase, file, app, success, wr) ==
    IF load_state(file) = phase
    THEN [file |-> file, applied |-> app, invoked |-> 0, saved |-> FALSE]
    ELSE change_cover_apply(phase, file, app, success, wr)

(* ------------------------------ scheduler ----------------------------- *)
JobIds == Phases \cup {"recalculate"}
Job(id, run_date) == [id |-> id, run_date |-> run_date]

\* scheduler.add_job(..., id=id, replace_existing=True)
add_job(js, id, run_date) == {j \in js : j.id # id} \cup {Job(id, run_date)}

\* scheduler.remove_all_jobs()
remove_all_jobs(js) == {}

\* line 436 without the test
InFuture_always(time, t) == TRUE

\* the test of line 436 as "time >= now"
InFuture_or_now(time, t) == time >= t

\* line 436: only schedule if the time is in the future
InFuture(time, t) == time > t

\* lines 424-450: the loop over phases from phases[i] on
RECURSIVE SchedulePhasesFrom(_, _, _, _)
SchedulePhasesFrom(js, pt, t, i) ==
    IF i > 4 THEN js
    ELSE SchedulePhasesFrom(
             IF InFuture(pt[phases[i]], t) THEN add_job(js, phases[i], pt[phases[i]]) ELSE js,
             pt, t, i + 1)
schedule_phase_changes(js, pt, t) == SchedulePhasesFrom(js, pt, t, 1)

\* lines 457-479
schedule_today_changes(js, pt, t) ==
    add_job(schedule_phase_changes(js, pt, t), "recalculate",
            Combine(DateOf(t) + 1, HM(0, 1)))

\* lines 380-401: tomorrow_phases
TomorrowPhases(mode, times, today_phases, t) ==
    IF mode /\ Truthy(times)
    THEN [ph \in Phases |-> times.at[ph] + Day]
    ELSE [ph \in Phases |-> Combine(DateOf(t) + 1, TimeOf(today_phases[ph]))]

\* calculate_times_for_tomorrow on a job table that is neither cleared first nor
\* keyed by id: every add appends
calculate_times_for_tomorrow_append(js, tomorrow_phases, t) ==
    js \cup {Job(ph, tomorrow_phases[ph]) : ph \in {q \in Phases : tomorrow_phases[q] > t}}
       \cup {Job("recalculate", Combine(DateOf(t) + 1, HM(23, 0)))}

\* lines 370-417: the job table after calculate_times_for_tomorrow
calculate_times_for_tomorrow(js, tomorrow_phases, t) ==
    add_job(schedule_phase_changes(remove_all_jobs(js), tomorrow_phases, t),
            "recalculate", Combine(DateOf(t) + 1, HM(23, 0)))

\* The scheduler hands a job to the executor once its run_date is reached.
Due(js, t) == {j \in js : j.run_date <= t}

\* the misfire test without any grace
Missed_nograce(run_date, t) == t > run_date

\* APScheduler's executor, with misfire_grace_time=3600 (lines 447, 751): the run
\* is skipped and logged as missed when it starts more than the grace late.
Missed(run_date, t) == t - run_date > misfire_grace_time

\* One-shot ('date') jobs leave the job table when they are handed over.
after_submit(js, t) == js \ Due(js, t)

(* ------------------------------- inputs ------------------------------- *)
\* cover_state.json at the start: absent; present but open() fails; not JSON;
\* JSON without 'phase' (or without 'timestamp', which line 634 reads as well);
\* a record written by save_state
FileCases == {"missing", "unreadable", "malformed", "no_phase"} \cup Phases

\* lines 150-168: every required variable set and every image present, or a
\* required variable unset or empty, or an image file absent
ConfigCases == {"ok", "missing_var", "missing_image"}

\* --debug "06:00,09:00,18:00,21:00" (the usage line of the script)
ArgUsage ==
    Text(<<"0", "6", ":", "0", "0", ",", "0", "9", ":", "0", "0", ",",
           "1", "8", ":", "0", "0", ",", "2", "1", ":", "0", "0">>)
\* --debug "06:00,09:00,18:00": three times
ArgThree ==
    Text(<<"0", "6", ":", "0", "0", ",", "0", "9", ":", "0", "0", ",",
           "1", "8", ":", "0", "0">>)
\* --debug "06:00,09:00,18:00,24:00": the last of four is no clock time
ArgBadLast ==
    Text(<<"0", "6", ":", "0", "0", ",", "0", "9", ":", "0", "0", ",",
           "1", "8", ":", "0", "0", ",", "2", "4", ":", "0", "0">>)
MalformedArgs == {ArgThree, ArgBadLast}
\* --debug "06:00,09:00,18:00,18:00": an evening of zero width
ArgZeroWidth ==
    Text(<<"0", "6", ":", "0", "0", ",", "0", "9", ":", "0", "0", ",",
           "1", "8", ":", "0", "0", ",", "1", "8", ":", "0", "0">>)
\* --debug "06:00,09:00,18:00,23:30": a night that starts within the grace of
\* the 00:01 recalculation
ArgLateNight ==
    Text(<<"0", "6", ":", "0", "0", ",", "0", "9", ":", "0", "0", ",",
           "1", "8", ":", "0", "0", ",", "2", "3", ":", "3", "0">>)
DebugArgs == {NoArg, ArgUsage, ArgZeroWidth}

\* clock times at which the process is started
StartTods == {HM(12, 0), HM(18, 0), HM(21, 0)}
StartInstants == {Combine(d, tod) : d \in 0..MaxDay, tod \in StartTods}

\* how late the scheduler thread may wake up for a job
Lateness == {0, misfire_grace_time - 1, misfire_grace_time + 1}
\* the scheduler thread wakes up at t exactly for the next pending job
OnTime(js, t) == \A j \in js : j.run_date >= t

(* ------------------------------- events ------------------------------- *)
\* op: the step; at: the clock reading of the step; id, run_date: the job, if any;
\* phase, loaded, invoked, ok, wr, saved: the change_cover(phase) call, if any
\* (what load_state returned, calls of change_playlist_cover, its result, how the
\* write ended, whether save_state was called); dup: a job was handed over
\* twice, or a job of that id had already run since the table was populated.
Event(op, at, id, run_date, phase, loaded, invoked, ok, wr, saved, dup) ==
    [op |-> op, at |-> at, id |-> id, run_date |-> run_date, phase |-> phase,
     loaded |-> loaded, invoked |-> invoked, ok |-> ok, wr |-> wr, saved |-> saved,
     dup |-> dup]
Plain(op, at) == Event(op, at, "", 0, None, None, 0, FALSE, "none", FALSE, FALSE)
JobEvent(op, at, j) ==
    Event(op, at, j.id, j.run_date, None, None, 0, FALSE, "none", FALSE, FALSE)
\* the event of a change_cover(phase) call with result r
CoverEvent(op, at, id, run_date, phase, file, r, success, wr) ==
    Event(op, at, id, run_date, phase, load_state(file), r.invoked,
          r.invoked = 1 /\ success, IF r.saved THEN wr ELSE "none", r.saved, FALSE)
Last2(s) == IF Len(s) > 2 THEN SubSeq(s, Len(s) - 1, Len(s)) ELSE s

(* ---------------- the other two programs, not running ----------------- *)
\* Python's None where the values are numbers (track ids, items)
NoId == 0

Playlists == {"month", "year", "global"}

\* like-sync.py is not running
LikeIdle ==
    /\ lpc = "off"
    /\ liked = <<>>
    /\ last_processed_id = NoId
    /\ liked_songs_state = [kind |-> "missing", last_liked_id |-> NoId]
    /\ playlist_items = [p \in Playlists |-> <<>>]
    /\ new_tracks = <<>>
    /\ api_errors = 0
    /\ like_restarts = 0

\* playlist_changer.py is not running
SelectIdle ==
    /\ selection_mode = "off"
    /\ available_items = <<>>
    /\ used_items = <<>>
    /\ item_index = 0
    /\ selection = [selected |-> NoId, cleared |-> FALSE, used_before |-> <<>>]

\* cover-change.py is not running
CoverIdle ==
    /\ pc = "off"
    /\ now = 0
    /\ debug_arg = NoArg
    /\ DEBUG_MODE = FALSE
    /\ DEBUG_TIMES = NoTimes
    /\ jobs = {}
    /\ submitted = {}
    /\ running = {}
    /\ config = "ok"
    /\ executed = {}
    /\ state_file = "missing"
    /\ applied = None
    /\ phase_times = [ph \in Phases |-> 0]
    /\ ev = Plain("none", 0)
    /\ recon = <<>>
    /\ last_done = [id \in JobIds |-> -1]
    /\ late_wakeups = 0
    /\ restarts = 0

(* -------------------------------- Init -------------------------------- *)
Init ==
    /\ LikeIdle /\ SelectIdle
    /\ pc = "boot"
    /\ now \in {Combine(0, tod) : tod \in StartTods}
    /\ debug_arg \in DebugArgs
    /\ DEBUG_MODE = FALSE
    /\ DEBUG_TIMES = NoTimes
    /\ jobs = {}
    /\ submitted = {}
    /\ running = {}
    /\ config \in ConfigCases
    /\ executed = {}
    /\ state_file \in FileCases
    /\ applied = load_state(state_file)
    /\ phase_times = [ph \in Phases |-> 0]
    /\ ev = Plain("none", 0)
    /\ recon = <<>>
    /\ last_done = [id \in JobIds |-> -1]
    /\ late_wakeups = 0
    /\ restarts = 0

(* ------------------------------- actions ------------------------------ *)
\* import without the checks of lines 150-168
Boot_nochecks ==
    /\ pc = "boot"
    /\ LET parsed == ParseDebug(debug_arg, now)
       IN  /\ DEBUG_MODE' = parsed.mode
           /\ DEBUG_TIMES' = parsed.times
    /\ pc' = "main"
    /\ ev' = Plain("boot", now)
    /\ UNCHANGED <<like_vars, select_vars, now, debug_arg, jobs, submitted, running, config, executed, state_file, applied,
                   phase_times, recon, last_done, late_wakeups, restarts>>

\* import: lines 88-121, then the checks of lines 150-168, which raise
Boot ==
    /\ pc = "boot"
    /\ LET parsed == ParseDebug(debug_arg, now)
       IN  /\ DEBUG_MODE' = parsed.mode
           /\ DEBUG_TIMES' = parsed.times
    /\ pc' = IF config = "ok" THEN "main" ELSE "aborted"
    /\ ev' = Plain("boot", now)
    /\ UNCHANGED <<like_vars, select_vars, now, debug_arg, jobs, submitted, running, config, executed, state_file, applied,
                   phase_times, recon, last_done, late_wakeups, restarts>>

\* lines 673-680: main, line 726
SetInitialCover ==
    /\ pc = "main"
    /\ \E resp \in ApiResponses, success \in BOOLEAN, wr \in WriteOutcomes :
         LET pt == calculate_phase_times(DEBUG_MODE, DEBUG_TIMES, now, resp)
             current_phase == get_current_phase(now, pt)
             r == change_cover(current_phase, state_file, applied, success, wr)
             e == CoverEvent("reconcile", now, "", 0, current_phase, state_file, r, success, wr)
         IN  /\ phase_times' = pt
             /\ state_file' = r.file
             /\ applied' = r.applied
             /\ ev' = e
             /\ recon' = Last2(Append(recon, e))
    /\ pc' = "reconciled"
    /\ UNCHANGED <<like_vars, select_vars, now, debug_arg, DEBUG_MODE, DEBUG_TIMES, jobs, submitted, running,
                   config, executed, last_done, late_wakeups, restarts>>

\* lines 457-479 and scheduler.start(): main, lines 729-733
ScheduleTodayChanges ==
    /\ pc = "reconciled"
    /\ \E resp \in ApiResponses :
         LET pt == calculate_phase_times(DEBUG_MODE, DEBUG_TIMES, now, resp)
         IN  /\ phase_times' = pt
             /\ jobs' = schedule_today_changes(jobs, pt, now)
    /\ pc' = "running"
    /\ executed' = {}
    /\ ev' = Plain("schedule_today", now)
    /\ UNCHANGED <<like_vars, select_vars, now, debug_arg, DEBUG_MODE, DEBUG_TIMES, submitted, running, config,
                   state_file, applied, recon, last_done, late_wakeups, restarts>>

\* the scheduler thread wakes up and hands every due job to the executor
ProcessJobs ==
    /\ pc = "running"
    /\ Due(jobs, now) # {}
    /\ submitted' = submitted \cup Due(jobs, now)
    /\ jobs' = after_submit(jobs, now)
    /\ last_done' = [id \in JobIds |->
                       IF \E j \in Due(jobs, now) : j.id = id
                       THEN (CHOOSE j \in Due(jobs, now) : j.id = id).run_date
                       ELSE last_done[id]]
    /\ ev' = Event("wakeup", now, "", 0, None, None, 0, FALSE, "none", FALSE,
                   \E j \in Due(jobs, now) : last_done[j.id] = j.run_date)
    /\ UNCHANGED <<like_vars, select_vars, pc, now, debug_arg, DEBUG_MODE, DEBUG_TIMES, running, config, executed,
                   state_file, applied, phase_times, recon, late_wakeups, restarts>>

\* a run that starts more than misfire_grace_time late is skipped and logged;
\* the skips are reported in the order of the run_dates (the order of submission)
JobMissed ==
    /\ pc = "running"
    /\ \E j \in submitted :
         /\ Missed(j.run_date, now)
         /\ \A k \in submitted : k.run_date >= j.run_date
         /\ submitted' = submitted \ {j}
         /\ ev' = JobEvent("missed", now, j)
    /\ UNCHANGED <<like_vars, select_vars, pc, now, debug_arg, DEBUG_MODE, DEBUG_TIMES, jobs, running, config, executed,
                   state_file, applied, phase_times, recon, last_done, late_wakeups,
                   restarts>>

\* lines 452-455 and 654-662: a pool thread takes a phase job, reads the state
\* file and returns if it holds the phase, else goes on to change_playlist_cover
StartPhaseJob ==
    /\ pc = "running"
    /\ \E j \in submitted :
         /\ j.id \in Phases
         /\ ~Missed(j.run_date, now)
         /\ submitted' = submitted \ {j}
         /\ executed' = executed \cup {j.id}
         /\ IF load_state(state_file) = j.id
            THEN /\ running' = running
                 /\ ev' = Event("phase_job", now, j.id, j.run_date, j.id,
                                load_state(state_file), 0, FALSE, "none", FALSE,
                                j.id \in executed)
            ELSE /\ running' = running \cup {[id |-> j.id, run_date |-> j.run_date,
                                               loaded |-> load_state(state_file)]}
                 /\ ev' = Event("phase_start", now, j.id, j.run_date, j.id,
                                load_state(state_file), 0, FALSE, "none", FALSE,
                                j.id \in executed)
    /\ UNCHANGED <<like_vars, select_vars, pc, now, debug_arg, DEBUG_MODE, DEBUG_TIMES, jobs, config, state_file,
                   applied, phase_times, recon, last_done, late_wakeups, restarts>>

\* lines 664-671 in that thread: change_playlist_cover returns, save_state on success
FinishPhaseJob ==
    /\ pc = "running"
    /\ \E c \in running, success \in BOOLEAN, wr \in WriteOutcomes :
         /\ running' = running \ {c}
         /\ LET r == change_cover_apply(c.id, state_file, applied, success, wr)
            IN  /\ state_file' = r.file
                /\ applied' = r.applied
                /\ ev' = Event("phase_job", now, c.id, c.run_date, c.id, c.loaded,
                               r.invoked, success, IF r.saved THEN wr ELSE "none",
                               r.saved, FALSE)
    /\ UNCHANGED <<like_vars, select_vars, pc, now, debug_arg, DEBUG_MODE, DEBUG_TIMES, jobs, submitted, config, executed,
                   phase_times, recon, last_done, late_wakeups, restarts>>

\* lines 370-422: the 'recalculate' job
RunRecalculate ==
    /\ pc = "running"
    /\ \E j \in submitted, resp \in ApiResponses :
         /\ j.id = "recalculate"
         /\ ~Missed(j.run_date, now)
         /\ submitted' = submitted \ {j}
         /\ LET today_phases == calculate_phase_times(DEBUG_MODE, DEBUG_TIMES, now, resp)
                tomorrow_phases == TomorrowPhases(DEBUG_MODE, DEBUG_TIMES, today_phases, now)
            IN  /\ phase_times' = tomorrow_phases
                /\ jobs' = calculate_times_for_tomorrow(jobs, tomorrow_phases, now)
         /\ ev' = Event("recalculate", now, j.id, j.run_date, None, None, 0, FALSE,
                        "none", FALSE, j.id \in executed)
    /\ executed' = {}
    /\ UNCHANGED <<like_vars, select_vars, pc, now, debug_arg, DEBUG_MODE, DEBUG_TIMES, running, config,
                   state_file, applied, recon, last_done, late_wakeups, restarts>>

\* The clock moves on while the scheduler thread sleeps: to the run_date of a
\* pending job, or past it when the process or host was suspended.
AdvanceTime ==
    /\ pc = "running"
    /\ Due(jobs, now) = {}
    /\ submitted = {}
    /\ running = {}
    /\ \E j \in jobs, d \in Lateness :
         /\ j.run_date + d > now
         /\ DateOf(j.run_date + d) <= MaxDay
         /\ now' = j.run_date + d
         /\ late_wakeups' = IF OnTime(jobs, j.run_date + d) THEN late_wakeups
                             ELSE late_wakeups + 1
         /\ late_wakeups' <= MaxLateWakeups
    /\ ev' = Plain("advance", now')
    /\ recon' = <<>>
    /\ UNCHANGED <<like_vars, select_vars, pc, debug_arg, DEBUG_MODE, DEBUG_TIMES, jobs, submitted, running,
                   config, executed, state_file, applied, phase_times, last_done, restarts>>

\* The process is killed and started again with the same command line, at once
\* or after a downtime. Jobs are not persisted; the state file and the playlist are.
Restart ==
    /\ pc # "boot"
    /\ restarts < MaxRestarts
    /\ restarts' = restarts + 1
    /\ \E t \in StartInstants :
         /\ t >= now
         /\ now' = t
         /\ recon' = IF t = now THEN recon ELSE <<>>
    /\ pc' = "boot"
    /\ DEBUG_MODE' = FALSE
    /\ DEBUG_TIMES' = NoTimes
    /\ jobs' = {}
    /\ submitted' = {}
    /\ running' = {}
    /\ executed' = {}
    /\ last_done' = [id \in JobIds |-> -1]
    /\ late_wakeups' = 0
    /\ ev' = Plain("restart", now')
    /\ UNCHANGED <<like_vars, select_vars, debug_arg, config, state_file, applied, phase_times>>

Next ==
    \/ Boot
    \/ SetInitialCover
    \/ ScheduleTodayChanges
    \/ ProcessJobs
    \/ JobMissed
    \/ StartPhaseJob
    \/ FinishPhaseJob
    \/ RunRecalculate
    \/ AdvanceTime
    \/ Restart

Spec == Init /\ [][Next]_vars

(* ------------- the program started with a malformed --debug ---------- *)
ParseInit ==
    /\ LikeIdle /\ SelectIdle
    /\ pc = "boot"
    /\ now = Combine(0, HM(12, 0))
    /\ debug_arg \in MalformedArgs
    /\ DEBUG_MODE = FALSE
    /\ DEBUG_TIMES = NoTimes
    /\ jobs = {}
    /\ submitted = {}
    /\ running = {}
    /\ config = "ok"
    /\ executed = {}
    /\ state_file \in {"missing", "day"}
    /\ applied = load_state(state_file)
    /\ phase_times = [ph \in Phases |-> 0]
    /\ ev = Plain("none", 0)
    /\ recon = <<>>
    /\ last_done = [id \in JobIds |-> -1]
    /\ late_wakeups = 0
    /\ restarts = 0

ParseSpec == ParseInit /\ [][Next]_vars

(* ------ the program started with a phase boundary close to midnight ---- *)
EpochInit ==
    /\ LikeIdle /\ SelectIdle
    /\ pc = "boot"
    /\ now = Combine(0, HM(12, 0))
    /\ debug_arg = ArgLateNight
    /\ DEBUG_MODE = FALSE
    /\ DEBUG_TIMES = NoTimes
    /\ jobs = {}
    /\ submitted = {}
    /\ running = {}
    /\ config = "ok"
    /\ executed = {}
    /\ state_file \in {"missing", "day"}
    /\ applied = load_state(state_file)
    /\ phase_times = [ph \in Phases |-> 0]
    /\ ev = Plain("none", 0)
    /\ recon = <<>>
    /\ last_done = [id \in JobIds |-> -1]
    /\ late_wakeups = 0
    /\ restarts = 0

EpochSpec == EpochInit /\ [][Next]_vars

(* ------------- setup, started close to a phase boundary --------------- *)
\* start times between the fallback table's and the service's sunrise and
\* sunset boundaries (05:30 / 05:43 and 22:00 / 22:21), and one far from both
StartupTods == {HM(5, 35), HM(12, 0), HM(22, 10)}

StartupInit ==
    /\ LikeIdle /\ SelectIdle
    /\ pc = "boot"
    /\ now \in {Combine(0, tod) : tod \in StartupTods}
    /\ debug_arg = NoArg
    /\ DEBUG_MODE = FALSE
    /\ DEBUG_TIMES = NoTimes
    /\ jobs = {}
    /\ submitted = {}
    /\ running = {}
    /\ config = "ok"
    /\ executed = {}
    /\ state_file \in FileCases
    /\ applied = load_state(state_file)
    /\ phase_times = [ph \in Phases |-> 0]
    /\ ev = Plain("none", 0)
    /\ recon = <<>>
    /\ last_done = [id \in JobIds |-> -1]
    /\ late_wakeups = 0
    /\ restarts = 0

\* import and main up to scheduler.start()
StartupNext ==
    \/ Boot
    \/ SetInitialCover
    \/ ScheduleTodayChanges

StartupSpec == StartupInit /\ [][StartupNext]_vars

(* ------------- the phase calculator on its input space ---------------- *)
\* answers of the sun service: an error, a midsummer day, a midwinter day
CalcResponses ==
    ApiResponses \cup {[ok |-> TRUE, sunrise |-> HM(8, 6), sunset |-> HM(15, 52)]}
Durations == 0..MaxDuration

\* the state after import, for a well-formed or absent --debug
CalcInit ==
    /\ LikeIdle /\ SelectIdle
    /\ pc = "calc"
    /\ now \in {Combine(0, tod) : tod \in StartTods}
    /\ debug_arg \in DebugArgs
    /\ DEBUG_MODE = ParseDebug(debug_arg, now).mode
    /\ DEBUG_TIMES = ParseDebug(debug_arg, now).times
    /\ jobs = {}
    /\ submitted = {}
    /\ running = {}
    /\ config = "ok"
    /\ executed = {}
    /\ state_file = "missing"
    /\ applied = None
    /\ phase_times = [ph \in Phases |-> 0]
    /\ ev = [op |-> "none"]
    /\ recon = <<>>
    /\ last_done = [id \in JobIds |-> -1]
    /\ late_wakeups = 0
    /\ restarts = 0

\* calculate_phase_times() under some durations and some answer of the service;
\* ev keeps the inputs and what get_sun_times returned
Calc ==
    /\ pc = "calc"
    /\ \E resp \in CalcResponses, md \in Durations, ed \in Durations :
         /\ phase_times' = PhaseTimesFor(DEBUG_MODE, DEBUG_TIMES, now, resp, md, ed)
         /\ ev' = [op |-> "calc", resp |-> resp, morning_duration |-> md,
                   evening_duration |-> ed, sun |-> get_sun_times(DateOf(now), resp)]
    /\ UNCHANGED <<like_vars, select_vars, pc, now, debug_arg, DEBUG_MODE, DEBUG_TIMES, jobs, submitted, running,
                   config, executed, state_file, applied, recon, last_done, late_wakeups, restarts>>

CalcSpec == CalcInit /\ [][Calc]_vars

(* ------------- the resolver on its whole input space ------------------ *)
\* get_current_phase applied at increasing instants to one schedule, ordered or
\* not; recon keeps the last two resolutions.
ResolveInit ==
    /\ LikeIdle /\ SelectIdle
    /\ pc = "resolve"
    /\ now = 0
    /\ phase_times \in [Phases -> 0..MaxT]
    /\ recon = <<>>
    /\ ev = Plain("none", 0)
    /\ debug_arg = NoArg
    /\ DEBUG_MODE = FALSE
    /\ DEBUG_TIMES = NoTimes
    /\ jobs = {}
    /\ submitted = {}
    /\ running = {}
    /\ config = "ok"
    /\ executed = {}
    /\ state_file = "missing"
    /\ applied = None
    /\ last_done = [id \in JobIds |-> -1]
    /\ late_wakeups = 0
    /\ restarts = 0

Resolve ==
    /\ pc = "resolve"
    /\ \E t \in 0..(MaxT + 1) :
         /\ recon = <<>> \/ t > now
         /\ now' = t
         /\ ev' = Event("resolve", t, "", 0, get_current_phase(t, phase_times), None,
                        0, FALSE, "none", FALSE, FALSE)
         /\ recon' = Last2(Append(recon, ev'))
    /\ UNCHANGED <<like_vars, select_vars, pc, debug_arg, DEBUG_MODE, DEBUG_TIMES, jobs, submitted, running,
                   config, executed, state_file, applied, phase_times, last_done, late_wakeups,
                   restarts>>

ResolveSpec == ResolveInit /\ [][Resolve]_vars

(* ===================== like-sync.py: the polling loop ================== *)
\* Track ids are 1, 2, ... in the order in which the user liked the tracks.
Tracks == 1..MaxTracks

\* the set of elements of a sequence
Range(seq) == {seq[i] : i \in 1..Len(seq)}

\* lines 77-87: the 'limit' most recently saved tracks, newest first
get_recent_liked_songs(lk, limit) ==
    SubSeq(lk, 1, IF Len(lk) < limit THEN Len(lk) ELSE limit)

\* lines 109-114: the tracks in front of the first one whose id is the cursor
NewTracks(tracks, cursor) ==
    LET hits == {i \in 1..Len(tracks) : tracks[i] = cursor}
    IN  IF hits = {} THEN tracks
        ELSE SubSeq(tracks, 1, (CHOOSE i \in hits : \A k \in hits : i <= k) - 1)

\* Python's reversed()
reversed(seq) == [i \in 1..Len(seq) |-> seq[Len(seq) + 1 - i]]

\* lines 38-42 and 103: the stored cursor; an absent file gives {} and None
like_load_state(file) == IF file.kind = "saved" THEN file.last_liked_id ELSE NoId

\* lines 44-46: written; open() fails and the file is untouched; the file is
\* truncated and the dump fails. A failure raises.
like_save_state(id, file, wr) ==
    CASE wr = "ok"         -> [kind |-> "saved", last_liked_id |-> id]
      [] wr = "open_fails" -> file
      [] wr = "dump_fails" -> [kind |-> "malformed", last_liked_id |-> NoId]

\* the step after a successful add_track_to_playlist
NextStep(step) ==
    CASE step = "add_month"  -> "add_year"
      [] step = "add_year"   -> "add_global"
      [] step = "add_global" -> "save"

PlaylistOf(step) ==
    CASE step = "add_month"  -> "month"
      [] step = "add_year"   -> "year"
      [] step = "add_global" -> "global"

LikeInit ==
    /\ CoverIdle /\ SelectIdle
    /\ lpc = "start"
    /\ liked = <<>>
    /\ last_processed_id = NoId
    /\ liked_songs_state = [kind |-> "missing", last_liked_id |-> NoId]
    /\ playlist_items = [p \in Playlists |-> <<>>]
    /\ new_tracks = <<>>
    /\ api_errors = 0
    /\ like_restarts = 0

\* the user saves one more track
LikeTrack ==
    /\ lpc # "off"
    /\ Len(liked) < MaxTracks
    /\ liked' = <<Len(liked) + 1>> \o liked
    /\ UNCHANGED <<cover_vars, select_vars, lpc, last_processed_id, liked_songs_state,
                   playlist_items, new_tracks, api_errors, like_restarts>>

\* lines 102-104: load_state and build_playlist_index run outside the try, so a
\* state file that does not parse ends the process
LikeStart ==
    /\ lpc = "start"
    /\ IF liked_songs_state.kind = "malformed"
       THEN lpc' = "crashed" /\ UNCHANGED last_processed_id
       ELSE lpc' = "poll" /\ last_processed_id' = like_load_state(liked_songs_state)
    /\ UNCHANGED <<cover_vars, select_vars, liked, liked_songs_state, playlist_items,
                   new_tracks, api_errors, like_restarts>>

\* lines 108-117 and 136-137: one fetch and the scan for the cursor
Poll ==
    /\ lpc = "poll"
    /\ LET tracks == get_recent_liked_songs(liked, RecentLimit)
           found == NewTracks(tracks, last_processed_id)
       IN  /\ new_tracks' = reversed(found)
           /\ lpc' = IF found # <<>> THEN "add_month" ELSE "sleep"
    /\ UNCHANGED <<cover_vars, select_vars, liked, last_processed_id, liked_songs_state,
                   playlist_items, api_errors, like_restarts>>

\* lines 129-131: one add_track_to_playlist call that returns
AddTrack ==
    /\ lpc \in {"add_month", "add_year", "add_global"}
    /\ playlist_items' = [playlist_items EXCEPT
                            ![PlaylistOf(lpc)] = Append(@, Head(new_tracks))]
    /\ lpc' = NextStep(lpc)
    /\ UNCHANGED <<cover_vars, select_vars, liked, last_processed_id, liked_songs_state,
                   new_tracks, api_errors, like_restarts>>

\* lines 108, 125-131 and 139-140: an API call raises (the fetch, an
\* ensure_playlist call in front of the first addition, or an addition); the
\* handler prints the error and the loop goes to sleep
ApiError ==
    /\ lpc \in {"poll", "add_month", "add_year", "add_global"}
    /\ api_errors < MaxApiErrors
    /\ api_errors' = api_errors + 1
    /\ new_tracks' = <<>>
    /\ lpc' = "sleep"
    /\ UNCHANGED <<cover_vars, select_vars, liked, last_processed_id, liked_songs_state,
                   playlist_items, like_restarts>>

\* lines 133-135: the cursor moves in memory, then the state is written; a
\* failed write raises into the handler of line 139
SaveCursor ==
    /\ lpc = "save"
    /\ \E wr \in WriteOutcomes :
         /\ wr # "ok" => api_errors < MaxApiErrors
         /\ last_processed_id' = Head(new_tracks)
         /\ liked_songs_state' = like_save_state(Head(new_tracks), liked_songs_state, wr)
         /\ IF wr = "ok"
            THEN /\ new_tracks' = Tail(new_tracks)
                 /\ lpc' = IF Tail(new_tracks) # <<>> THEN "add_month" ELSE "sleep"
                 /\ UNCHANGED api_errors
            ELSE /\ new_tracks' = <<>>
                 /\ lpc' = "sleep"
                 /\ api_errors' = api_errors + 1
    /\ UNCHANGED <<cover_vars, select_vars, liked, playlist_items, like_restarts>>

\* line 142: time.sleep(POLL_INTERVAL), then the next iteration
Sleep ==
    /\ lpc = "sleep"
    /\ lpc' = "poll"
    /\ UNCHANGED <<cover_vars, select_vars, liked, last_processed_id, liked_songs_state,
                   playlist_items, new_tracks, api_errors, like_restarts>>

\* the process is stopped at any point and started again
LikeRestart ==
    /\ lpc \notin {"off", "start"}
    /\ like_restarts < MaxLikeRestarts
    /\ like_restarts' = like_restarts + 1
    /\ lpc' = "start"
    /\ last_processed_id' = NoId
    /\ new_tracks' = <<>>
    /\ UNCHANGED <<cover_vars, select_vars, liked, liked_songs_state, playlist_items,
                   api_errors>>

LikeNext ==
    \/ LikeTrack
    \/ LikeStart
    \/ Poll
    \/ AddTrack
    \/ ApiError
    \/ SaveCursor
    \/ Sleep
    \/ LikeRestart

LikeSpec == LikeInit /\ [][LikeNext]_vars

(* ================== playlist_changer.py: select_item =================== *)
Items == 1..MaxItems

\* lists over a set, up to a length
SeqsUpTo(S, n) == UNION {[1..k -> S] : k \in 0..n}

NoRepeat(seq) == \A i, j \in 1..Len(seq) : seq[i] = seq[j] => i = j

\* a used list that is never cleared
AfterReset_keep(available, used) == used

\* lines 199-201: the used list after the reset test
AfterReset(available, used) ==
    IF Len(used) >= Len(available) THEN <<>> ELSE used

\* line 204: [item for item in available_items if item not in used_items]
Unused(available, used) ==
    SelectSeq(available, LAMBDA item : item \notin Range(used))

\* lines 204-208: what random.choice draws from
Candidates(available, used) ==
    LET unused_items == Unused(available, AfterReset(available, used))
    IN  IF unused_items = <<>> THEN available ELSE unused_items

\* lines 184-189: the index the sequential mode reads
CurrentIndex(available, idx) == IF idx >= Len(available) THEN 0 ELSE idx

\* The lists come from a directory listing or from the lines of a text file
\* (lines 115-174), which may repeat; the used list and the index come
\* from the state file (lines 88-107), written by earlier runs.
SelectInit ==
    /\ CoverIdle /\ LikeIdle
    /\ selection_mode \in {"random", "sequential"}
    /\ available_items \in SeqsUpTo(Items, MaxItems)
    /\ used_items \in {u \in SeqsUpTo(Items, MaxItems) :
                          NoRepeat(u) /\ (selection_mode = "sequential" => u = <<>>)}
    /\ item_index \in {i \in 0..MaxItems : selection_mode = "random" => i = 0}
    /\ selection = [selected |-> NoId, cleared |-> FALSE, used_before |-> <<>>]

\* lines 176-215: one call of select_item
SelectItem ==
    /\ selection_mode # "off"
    /\ IF available_items = <<>>
       THEN /\ selection' = [selected |-> NoId, cleared |-> FALSE,
                             used_before |-> used_items]
            /\ UNCHANGED <<used_items, item_index>>
       ELSE IF selection_mode = "sequential"
       THEN LET current_index == CurrentIndex(available_items, item_index)
            IN  /\ selection' = [selected |-> available_items[current_index + 1],
                                 cleared |-> FALSE, used_before |-> used_items]
                /\ item_index' = current_index + 1
                /\ UNCHANGED used_items
       ELSE LET kept == AfterReset(available_items, used_items)
                unused_items == Candidates(available_items, used_items)
            IN  \E k \in 1..Len(unused_items) :
                  /\ used_items' = Append(kept, unused_items[k])
                  /\ selection' = [selected |-> unused_items[k],
                                   cleared |-> kept # used_items,
                                   used_before |-> used_items]
                  /\ UNCHANGED item_index
    /\ UNCHANGED <<cover_vars, like_vars, selection_mode, available_items>>

SelectSpec == SelectInit /\ [][SelectItem]_vars

(* ======================== claims about the program ===================== *)
CoverOps == {"reconcile", "phase_job"}

\* C1 as stated: at startup, when the persisted phase p (None for a missing or
\* unreadable file) differs from the freshly resolved phase q, the action is
\* invoked exactly once with q and, when it succeeds, the persisted phase is q.
C1_Original ==
    (ev.op = "reconcile" /\ ev.loaded # ev.phase) =>
        /\ ev.phase = get_current_phase(now, phase_times)
        /\ ev.invoked = 1
        /\ (ev.ok => load_state(state_file) = ev.phase)

\* C1 amended: ... and, when the action succeeds, the cover applied is q; the
\* persisted phase is q when the state write succeeds as well (a failed write
\* leaves the old phase or no readable state).
C1_StartupReconciliation ==
    (ev.op = "reconcile" /\ ev.loaded # ev.phase) =>
        /\ ev.phase = get_current_phase(now, phase_times)
        /\ ev.invoked = 1
        /\ (ev.ok => applied = ev.phase /\ ev.saved)
        /\ (ev.ok /\ ev.wr = "ok" => load_state(state_file) = ev.phase)
        /\ (ev.ok /\ ev.wr # "ok" => load_state(state_file) \in {ev.loaded, None})

\* C1 witness: persisted morning, real phase evening, one successful call
C1_Witness ==
    /\ ev.op = "reconcile" /\ ev.loaded = "morning" /\ ev.phase = "evening"
    /\ ev.invoked = 1 /\ ev.ok /\ state_file = "evening"

\* C2 as stated: two reconciliations in a row for the same phase, with no
\* elapsed time, invoke the action exactly once in total.
C2_Original ==
    (Len(recon) = 2 /\ recon[1].phase = recon[2].phase) =>
        recon[1].invoked + recon[2].invoked = 1

\* C2 amended: ... exactly once in total when the persisted phase differed from
\* the resolved phase before the first run and the first run's action and state
\* write succeeded (the second run then finds the phases equal and makes no
\* call); neither run calls when the persisted phase was equal from the start,
\* and the second run calls again when the first call or its write failed.
C2_TwiceInARow ==
    (Len(recon) = 2 /\ recon[1].phase = recon[2].phase) =>
        /\ (recon[1].loaded # recon[1].phase /\ recon[1].ok /\ recon[1].wr = "ok")
              => (recon[1].invoked = 1 /\ recon[2].invoked = 0)
        /\ recon[1].invoked = 0 => recon[2].invoked = 0
        /\ (recon[1].invoked = 1 /\ ~(recon[1].ok /\ recon[1].wr = "ok"))
              => recon[2].invoked = 1

\* C2 witness: a first run that called and saved, a second that made no call
C2_Witness ==
    /\ Len(recon) = 2 /\ recon[1].phase = recon[2].phase
    /\ recon[1].invoked = 1 /\ recon[1].ok /\ recon[1].wr = "ok"
    /\ recon[2].invoked = 0

\* C3: the state file changes only in a step whose change_playlist_cover call
\* returned success, and then holds that call's phase (or nothing readable);
\* a call that returns false is followed by no save_state and leaves the file
\* as it was, and change_cover for a phase other than the persisted one always
\* invokes the action.
C3_PersistOnlyOnSuccess ==
    [][ /\ (state_file' # state_file) =>
              /\ ev'.op \in CoverOps /\ ev'.invoked = 1 /\ ev'.ok /\ ev'.saved
              /\ load_state(state_file') \in {ev'.phase, None}
        /\ (ev'.op \in CoverOps /\ ev'.invoked = 1 /\ ~ev'.ok) =>
              (~ev'.saved /\ state_file' = state_file)
        /\ (ev'.op \in CoverOps /\ load_state(state_file) # ev'.phase) =>
              ev'.invoked = 1
      ]_vars

\* C3 witness: a failed call left the file alone and the next change_cover for
\* the same phase invoked the action again
C3_Witness ==
    /\ Len(recon) = 2 /\ recon[1].phase = recon[2].phase
    /\ recon[1].invoked = 1 /\ ~recon[1].ok
    /\ recon[2].invoked = 1 /\ recon[2].loaded = recon[1].loaded

HasJob(id) == \E j \in jobs : j.id = id

\* C4 as stated (solar mode, one process from day 0 on, no late wake-up): on
\* every later day, whenever the scheduler is idle, a 'recalculate' job is
\* pending and every phase either has a job pending for an instant of that day
\* or has had its job of that day handed over: no calendar day is skipped.
C4_EveryDayCovered ==
    ( /\ pc = "running" /\ restarts = 0 /\ late_wakeups = 0 /\ ~DEBUG_MODE
      /\ submitted = {} /\ Due(jobs, now) = {}
      /\ DateOf(now) >= 1 ) =>
        /\ \E j \in jobs : j.id = "recalculate" /\ j.run_date > now
        /\ \A ph \in Phases :
              \/ \E j \in jobs : /\ j.id = ph
                                /\ DateOf(j.run_date) = DateOf(now)
                                /\ j.run_date > now
              \/ DateOf(last_done[ph]) = DateOf(now)

\* C5: right after schedule_phase_changes has run (in schedule_today_changes or
\* in calculate_times_for_tomorrow) a phase has a pending job exactly when its
\* start instant is strictly later than now, that job is for that instant, and
\* the registration invoked no action.
C5_ScheduleFutureOnly ==
    (ev.op \in {"schedule_today", "recalculate"}) =>
        /\ ev.invoked = 0
        /\ \A ph \in Phases :
              /\ HasJob(ph) <=> phase_times[ph] > now
              /\ HasJob(ph) => Job(ph, phase_times[ph]) \in jobs

\* C5 witness: started exactly at a phase start: that phase got no job, a
\* later one did
C5_Witness ==
    /\ ev.op = "schedule_today"
    /\ \E ph \in Phases : phase_times[ph] = now /\ ~HasJob(ph)
    /\ \E ph \in Phases : HasJob(ph)

\* C6: the job table never holds two jobs of one id, only ids of the four
\* phases and 'recalculate', hence at most five jobs.
C6_OneJobPerKey ==
    /\ \A j1, j2 \in jobs : j1.id = j2.id => j1 = j2
    /\ \A j \in jobs : j.id \in JobIds
    /\ Cardinality(jobs) <= 5

\* C6 witness: calculate_times_for_tomorrow has filled the table with five jobs
C6_Witness == ev.op = "recalculate" /\ Cardinality(jobs) = 5

\* C7: a job started at most 3599 s after its run_date runs, one started
\* 3601 s or more after it is skipped (an event, no call, no error); a run or a
\* skip takes the job out of the table, and no job is handed over twice.
C7_MisfireGrace ==
    /\ (ev.op \in {"phase_job", "recalculate", "missed"}) =>
          /\ ev.at - ev.run_date <= 3600 - 1 => ev.op # "missed"
          /\ ev.at - ev.run_date >= 3600 + 1 => (ev.op = "missed" /\ ev.invoked = 0)
          /\ Job(ev.id, ev.run_date) \notin jobs
    /\ ev.op = "wakeup" => ~ev.dup

\* C7 witness: a phase job that ran 3599 s late
C7_Witness == ev.op = "phase_job" /\ ev.at - ev.run_date = 3600 - 1

PhaseRank(ph) == CHOOSE i \in 1..4 : phases[i] = ph
Ordered(pt) ==
    pt["morning"] <= pt["day"] /\ pt["day"] <= pt["evening"] /\ pt["evening"] <= pt["night"]

\* C8: on an ordered schedule the resolver returns night before morning_start,
\* morning in [morning_start, day_start), day in [day_start, evening_start),
\* evening in [evening_start, night_start) and night from night_start on; a
\* zero-width phase is never returned.
C8_ResolverTable ==
    \A i \in 1..Len(recon) :
        LET t == recon[i].at
            r == recon[i].phase
            pt == phase_times
        IN  Ordered(pt) =>
              /\ r \in Phases
              /\ t < pt["morning"] => r = "night"
              /\ (pt["morning"] <= t /\ t < pt["day"]) => r = "morning"
              /\ (pt["day"] <= t /\ t < pt["evening"]) => r = "day"
              /\ (pt["evening"] <= t /\ t < pt["night"]) => r = "evening"
              /\ t >= pt["night"] => r = "night"
              /\ pt["morning"] = pt["day"] => r # "morning"
              /\ pt["day"] = pt["evening"] => r # "day"
              /\ pt["evening"] = pt["night"] => r # "evening"

\* C8 witness: an instant on the boundary of a zero-width morning resolves to day
C8_Witness ==
    /\ Len(recon) >= 1 /\ Ordered(phase_times)
    /\ phase_times["morning"] = phase_times["day"]
    /\ phase_times["day"] < phase_times["evening"]
    /\ recon[1].at = phase_times["morning"] /\ recon[1].phase = "day"

\* C9: for instants now1 < now2 resolved against one schedule the phase never
\* steps backwards in morning -> day -> evening -> night: from a phase other
\* than night the rank does not decrease, the pre-dawn night may be followed by
\* any phase, and the night after night_start only by night.
C9_ResolverMonotonic ==
    (Len(recon) = 2 /\ recon[1].at < recon[2].at) =>
        /\ recon[1].phase # "night" =>
              PhaseRank(recon[1].phase) <= PhaseRank(recon[2].phase)
        /\ (recon[1].phase = "night" /\ recon[1].at >= phase_times["morning"]) =>
              recon[2].phase = "night"

\* C9 witness: from the pre-dawn night into the morning of an ordered schedule,
\* and a later pair inside the day
C9_Witness ==
    /\ Len(recon) = 2 /\ Ordered(phase_times)
    /\ recon[1].phase = "morning" /\ recon[2].phase = "evening"
    /\ phase_times["morning"] > 0

\* C10 as stated: "06:00,09:00,18:00,21:00" parses, whenever it is parsed, to
\* four entries, in order morning, day, evening, night, each today at that
\* clock time or tomorrow if that is already past, and the four instants are
\* in non-decreasing order.
C10_OverridesOrdered ==
    (ev.op = "boot" /\ debug_arg = ArgUsage) =>
        LET tods == <<HM(6, 0), HM(9, 0), HM(18, 0), HM(21, 0)>>
            at == DEBUG_TIMES.at
        IN  /\ DEBUG_MODE
            /\ ~DEBUG_TIMES.none
            /\ DOMAIN at = Phases
            /\ \A i \in 1..4 :
                  at[phases[i]] = IF Combine(DateOf(now), tods[i]) < now
                                  THEN Combine(DateOf(now) + 1, tods[i])
                                  ELSE Combine(DateOf(now), tods[i])
            /\ \A i \in 1..3 : at[phases[i]] <= at[phases[i + 1]]

\* the solar schedule of the day of t for some answer of the sun service
IsSolar(pt, t) ==
    \E resp \in ApiResponses :
        LET sun == get_sun_times(DateOf(t), resp)
        IN  pt = SolarPhases(sun.sunrise, sun.sunset, MORNING_DURATION, EVENING_DURATION)
\* that schedule's clock times on the day after t
IsSolarTomorrow(pt, t) ==
    \E resp \in ApiResponses :
        LET sun == get_sun_times(DateOf(t), resp)
            sp == SolarPhases(sun.sunrise, sun.sunset, MORNING_DURATION, EVENING_DURATION)
        IN  pt = [ph \in Phases |-> Combine(DateOf(t) + 1, TimeOf(sp[ph]))]

\* C11: with a malformed --debug value (three times, or four of which one is
\* no clock time) override mode is off after the parse and stays off, the
\* process goes on, and every schedule computed afterwards (at reconciliation,
\* for today's jobs, at recalculation) is the solar one, whatever part of the
\* table was parsed before the error.
C11_MalformedOverride ==
    (debug_arg \in MalformedArgs) =>
        /\ ~DEBUG_MODE
        /\ ev.op \in {"reconcile", "schedule_today"} => IsSolar(phase_times, now)
        /\ ev.op = "recalculate" => IsSolarTomorrow(phase_times, now)
        /\ (ev.op = "boot" /\ config = "ok") => pc = "main"

\* C11 witness: three of four times were parsed before the error, and the
\* recalculation job has run with the solar schedule
C11_Witness ==
    /\ debug_arg = ArgBadLast /\ ev.op = "recalculate"
    /\ ~DEBUG_TIMES.none /\ DOMAIN DEBUG_TIMES.at = {"morning", "day", "evening"}
    /\ IsSolarTomorrow(phase_times, now)

\* C12: in solar mode, for every sunrise S and sunset E that get_sun_times
\* returns and every pair of durations, the schedule is exactly S, S +
\* morning_duration, E - evening_duration, E, also when that puts the evening
\* before the day.
C12_SolarExact ==
    (ev.op = "calc" /\ ~DEBUG_MODE) =>
        /\ phase_times["morning"] = ev.sun.sunrise
        /\ phase_times["day"] = ev.sun.sunrise + ev.morning_duration * 3600
        /\ phase_times["evening"] = ev.sun.sunset - ev.evening_duration * 3600
        /\ phase_times["night"] = ev.sun.sunset

\* C12 witness: a midwinter day with durations that overlap: nothing is clamped
C12_Witness ==
    /\ ev.op = "calc" /\ ~DEBUG_MODE /\ ev.resp.ok
    /\ ev.morning_duration = MaxDuration /\ ev.evening_duration = MaxDuration
    /\ phase_times["evening"] < phase_times["day"]

\* C13 as stated: every schedule calculate_phase_times produces, on the solar
\* path (service answer or fallback table, any durations >= 0) and on the
\* override path, has morning_start <= day_start <= evening_start <= night_start.
C13_SchedulesOrdered ==
    (ev.op = "calc") => Ordered(phase_times)

\* C14: a step whose state write failed (after a successful action, at
\* reconciliation or in a phase job) ends like any other: the caller goes on
\* (reconciliation proceeds to scheduling, the job ends as a run and not as an
\* error), the cover just applied stays applied, and the job table and the
\* jobs handed to the executor are as before.
C14_WriteFailureHarmless ==
    [][ (ev'.op \in CoverOps /\ ev'.saved /\ ev'.wr # "ok") =>
            /\ ev'.ok /\ applied' = ev'.phase
            /\ jobs' = jobs /\ submitted' = submitted
            /\ ev'.op = "reconcile" => pc' = "reconciled"
            /\ ev'.op = "phase_job" => pc' = "running"
      ]_vars

\* C14 witness: a phase job whose write failed half-way: the new cover is
\* applied, the state file is unreadable, the other jobs are still pending
C14_Witness ==
    /\ ev.op = "phase_job" /\ ev.ok /\ ev.wr = "dump_fails"
    /\ applied = ev.phase /\ state_file = "malformed"
    /\ HasJob("recalculate") /\ \E ph \in Phases : HasJob(ph)

\* a step in which change_cover calls load_state
LoadStep(e) == e.op \in {"reconcile", "phase_start"} \/ (e.op = "phase_job" /\ e.invoked = 0)

\* C15: when the state file is missing, unreadable, not JSON or has no phase
\* field, load_state returns None and change_cover goes on to the action: at
\* reconciliation the action is invoked, a phase job proceeds to its call.
C15_LoadNeverFails ==
    [][ (state_file \notin Phases /\ LoadStep(ev')) =>
            /\ ev'.loaded = None
            /\ ev'.op = "reconcile" => (ev'.invoked = 1 /\ pc' = "reconciled")
            /\ ev'.op # "reconcile" =>
                  (ev'.op = "phase_start" /\ \E c \in running' : c.id = ev'.id)
      ]_vars

\* C15 witness: the first reconciliation found no usable state, called the
\* action and wrote a fresh record
C15_Witness ==
    /\ Len(recon) = 1 /\ ev.op = "reconcile" /\ restarts = 0
    /\ ev.loaded = None /\ ev.invoked = 1 /\ ev.ok /\ ev.wr = "ok"
    /\ applied = ev.phase /\ state_file = ev.phase

\* C16: get_sun_times always returns a sunrise and a sunset: when the service
\* fails (network failure, status not OK, unparsable answer) they are the
\* fallback table's clock times for the current month on today's date plus
\* TIME_OFFSET hours, and the service's own times get the same offset.
C16_SunTimesFallback ==
    (ev.op = "calc") =>
        /\ DOMAIN ev.sun = {"sunrise", "sunset"}
        /\ ~ev.resp.ok =>
              /\ ev.sun.sunrise =
                    DateOf(now) * 86400 + sun_times[EpochMonth][1] + TIME_OFFSET * 3600
              /\ ev.sun.sunset =
                    DateOf(now) * 86400 + sun_times[EpochMonth][2] + TIME_OFFSET * 3600
        /\ ev.resp.ok =>
              /\ ev.sun.sunrise = DateOf(now) * 86400 + ev.resp.sunrise + TIME_OFFSET * 3600
              /\ ev.sun.sunset = DateOf(now) * 86400 + ev.resp.sunset + TIME_OFFSET * 3600

\* C16 witness: the service failed and the solar schedule starts at the table's
\* sunrise plus the offset
C16_Witness ==
    /\ ev.op = "calc" /\ ~ev.resp.ok /\ ~DEBUG_MODE
    /\ phase_times["morning"] = Combine(DateOf(now), sun_times[EpochMonth][1]) + Hour
    /\ phase_times["night"] = ev.sun.sunset

\* C17: with a required setting missing or empty, or an image file absent, the
\* process never gets past import: main is not entered, no job is ever in the
\* job table or with the executor, no step calls change_cover, and the state
\* file and the cover stay as they were.
C17_ConfigFailsClosed ==
    /\ [](config # "ok" =>
            /\ pc \in {"boot", "aborted"}
            /\ jobs = {} /\ submitted = {} /\ running = {}
            /\ ev.op \in {"none", "boot", "restart"})
    /\ [][config # "ok" => (state_file' = state_file /\ applied' = applied)]_vars

\* C17 witness: the import of a restarted process has stopped at the image check
C17_Witness ==
    /\ config = "missing_image" /\ pc = "aborted" /\ ev.op = "boot"
    /\ restarts = 1 /\ jobs = {} /\ applied = load_state(state_file)

\* C18 as stated: at most one job is executing at any time: never two
\* change_cover_job calls in flight, and calculate_times_for_tomorrow never
\* runs while a change_cover_job call is in flight.
C18_OneJobAtATime ==
    /\ Cardinality(running) <= 1
    /\ ev.op = "recalculate" => running = {}

\* C19 as stated: the state file is used by one thread at a time: the
\* reconciliation of the main thread is over before any job exists or runs,
\* and a phase job makes its load_state check only when no other change_cover
\* call is between its load_state and its return.
C19_StateStoreOneThread ==
    /\ ev.op = "reconcile" =>
          (pc = "reconciled" /\ jobs = {} /\ submitted = {} /\ running = {})
    /\ ev.op = "phase_start" => running = {[id |-> ev.id, run_date |-> ev.run_date,
                                            loaded |-> ev.loaded]}
    /\ (ev.op = "phase_job" /\ ev.invoked = 0) => running = {}

\* C20: a run of calculate_times_for_tomorrow invokes no action, leaves the
\* state file and the applied cover as they are, and leaves in the job table
\* only jobs with a run_date later than the moment it runs.
C20_RecalculateFrame ==
    [][ ev'.op = "recalculate" =>
            /\ ev'.invoked = 0
            /\ state_file' = state_file /\ applied' = applied
            /\ \A j \in jobs' : j.run_date > now'
      ]_vars

\* C20 witness: in override mode a recalculation found a start instant of its
\* new schedule already past and installed no job for that phase
C20_Witness ==
    /\ ev.op = "recalculate" /\ DEBUG_MODE
    /\ \E ph \in Phases : phase_times[ph] <= now /\ ~HasJob(ph)
    /\ HasJob("recalculate") /\ applied # None

\* C21: between one population of the job table (schedule_today_changes or
\* calculate_times_for_tomorrow) and the next, no id has its job run twice:
\* a step that starts a phase job or runs 'recalculate' never finds that id
\* among the ids already run, also when the job starts late within its grace.
C21_OncePerEpoch ==
    /\ ev.op \in {"phase_start", "phase_job", "recalculate"} => ~ev.dup
    /\ \A j1, j2 \in submitted : j1.id = j2.id => j1 = j2
    /\ \A c1, c2 \in running : c1.id = c2.id => c1 = c2

\* the phase of the clock-time window of the schedule that holds the time of day of t
ByClock(t, pt) == get_current_phase(TimeOf(t), [ph \in Phases |-> TimeOf(pt[ph])])

\* a phase job of the present schedule was handed over and skipped as missed
Dropped(id) ==
    /\ late_wakeups >= 1
    /\ last_done[id] = phase_times[id]
    /\ id \notin executed
    /\ Job(id, phase_times[id]) \notin submitted

\* a skip raises nothing and touches nothing but the skipped job
MissFrame ==
    [][ ev'.op = "missed" =>
            /\ pc' = pc /\ jobs' = jobs /\ running' = running
            /\ submitted' = submitted \ {Job(ev'.id, ev'.run_date)}
            /\ state_file' = state_file /\ applied' = applied
      ]_vars

\* C22 as stated: a phase job skipped for a misfire raises no error and leaves
\* the other jobs alone, and once the next phase job has fired and its action
\* has succeeded the persisted phase is the phase current at that time.
C22_MisfireCorrected ==
    /\ MissFrame
    /\ []((ev.op = "phase_job" /\ ev.invoked = 1 /\ ev.ok
            /\ \E id \in Phases : Dropped(id)) =>
              load_state(state_file) = ByClock(now, phase_times))

\* C23 as stated: in override mode every run of 'recalculate' leaves, for each
\* phase, a job at that phase's override clock time on the calendar day after
\* the day of the run.
C23_OverridesKeepFiring ==
    (ev.op = "recalculate" /\ DEBUG_MODE) =>
        \A ph \in Phases :
            Job(ph, Combine(DateOf(now) + 1, TimeOf(DEBUG_TIMES.at[ph]))) \in jobs

\* C24 as stated: when setup has scheduled today's jobs, the phase that
\* reconciliation applied is explained by a schedule in which every phase
\* start is either not later than the time of the reconciliation or has a
\* pending job: no boundary falls between the two.
C24_NoBoundaryLost ==
    (ev.op = "schedule_today" /\ Len(recon) >= 1) =>
        \E resp \in ApiResponses :
            LET pt == calculate_phase_times(DEBUG_MODE, DEBUG_TIMES, now, resp)
            IN  /\ get_current_phase(now, pt) = recon[Len(recon)].phase
                /\ \A ph \in Phases : pt[ph] <= now \/ HasJob(ph)

\* C25 as stated: a run of 'recalculate' keeps every pending phase job whose
\* run_date is still ahead: it stays in the job table with the same run_date.
C25_PendingJobsKept ==
    [][ ev'.op = "recalculate" =>
            \A j \in jobs : (j.id \in Phases /\ j.run_date > now) => j \in jobs'
      ]_vars

\* C26 as stated: from the end of setup on, whenever the scheduler has handed
\* over what was due and no 'recalculate' run is in the pool, exactly one
\* 'recalculate' job is pending and its run_date is ahead of the clock.
C26_ChainNeverStops ==
    ( /\ pc = "running"
      /\ Due(jobs, now) = {}
      /\ \A j \in submitted : j.id # "recalculate" )
    => Cardinality({j \in jobs : j.id = "recalculate" /\ j.run_date > now}) = 1

\* C27 as stated: whenever the state file holds a phase P, the cover applied by
\* the last successful external action is P, so the skip of change_cover(P) is
\* taken only when the cover already is P.
C27_SuppressionSound ==
    load_state(state_file) # None => applied = load_state(state_file)

\* C28 as stated: in override mode with clock times m <= d <= e <= n, startup
\* reconciliation at time of day t resolves morning if m <= t < d, day if
\* d <= t < e, evening if e <= t < n, and night otherwise.
C28_OverrideWindows ==
    (ev.op = "reconcile" /\ DEBUG_MODE) =>
        LET t == TimeOf(ev.at)
            m == TimeOf(DEBUG_TIMES.at["morning"])
            d == TimeOf(DEBUG_TIMES.at["day"])
            e == TimeOf(DEBUG_TIMES.at["evening"])
            n == TimeOf(DEBUG_TIMES.at["night"])
        IN  (m <= d /\ d <= e /\ e <= n) =>
                ev.phase = CASE m <= t /\ t < d -> "morning"
                             [] d <= t /\ t < e -> "day"
                             [] e <= t /\ t < n -> "evening"
                             [] OTHER -> "night"

\* C29 as stated: every playlist receives the newly liked tracks oldest first
\* and each of them once (its additions are in strictly increasing like order),
\* and a cursor, in memory or saved, names a track that is in all three
\* playlists.
C29_EachLikeOnce ==
    /\ \A p \in Playlists :
         \A i, j \in 1..Len(playlist_items[p]) :
            i < j => playlist_items[p][i] < playlist_items[p][j]
    /\ \A c \in {last_processed_id, like_load_state(liked_songs_state)} :
         c # NoId => \A p \in Playlists : c \in Range(playlist_items[p])

====
